---- MODULE Spec2Model ----
(***************************************************************************)
(* A model of streamlit_app.py (Terraform Code Generator): the pattern     *)
(* catalog and its dispatch table, the prompt builder, the JSON response   *)
(* parser with its fallback, the ZIP packager and the Streamlit views.     *)
(*                                                                         *)
(* Text is modelled as a sequence of pieces (characters, lexemes or fixed  *)
(* template fragments), a Python dict as the sequence of its               *)
(* <<key, value>> items in insertion order.                                *)
(*                                                                         *)
(* The file defines several functions and methods more than once; as in   *)
(* Python, the definition that comes last is the one modelled.  Methods    *)
(* the dispatch table names but no class body defines (_get_vpc_code,      *)
(* _get_ec2_code, _get_s3_code) raise AttributeError when looked up.       *)
(***************************************************************************)
EXTENDS Integers, Sequences, FiniteSets, TLC

VARIABLES
    response,       \* the text of the API response handed to the parser
    parsed,         \* the outcome of _parse_terraform_response(response)
    files_dict,     \* the dict handed to create_terraform_zip
    archive,        \* the outcome of create_terraform_zip(files_dict)
    provider_filter,    \* pattern browser: the "Cloud Provider" select box
    category_filter,    \* pattern browser: the "Category" select box
    complexity_filter,  \* pattern browser: the "Complexity Level" select box
    session_patterns,   \* st.session_state.patterns, when the key is set
    download,           \* what the last Download click of the browser led to
    lookup_patterns,    \* two TerraformPattern objects handed to get_pattern_code
    lookup_codes,       \* the outcomes of get_pattern_code for them, in call order
    requirements,       \* the dict handed to _build_generation_prompt
    prompt,             \* the prompt it returned, once called
    anthropic_key,      \* whether st.secrets holds ANTHROPIC_API_KEY
    anthropic_installed,    \* whether "import anthropic" succeeds
    gen,                \* what the last run of the AI Code Generator page did
    validated_submissions,  \* form submissions that passed validation so far
    api_requests,       \* client.messages.create calls made so far
    module,             \* main(): the "Choose Module" radio of the sidebar
    view                \* main(): what the last run dispatched to

parseVars == <<response, parsed>>
zipVars == <<files_dict, archive>>
browserVars == <<provider_filter, category_filter, complexity_filter,
                 session_patterns, download>>
lookupVars == <<lookup_patterns, lookup_codes>>
promptVars == <<requirements, prompt>>
genVars == <<anthropic_key, anthropic_installed, gen, validated_submissions, api_requests>>

mainVars == <<module, view>>

vars == <<parseVars, zipVars, browserVars, lookupVars, promptVars, genVars, mainVars>>

-----------------------------------------------------------------------------
(* Bounds *)

MaxResponseLen == 5
MaxFiles == 2
MaxNameLen == 2
MaxSubmissions == 2

-----------------------------------------------------------------------------
(* Python helpers *)

\* str.find(c): the 0-based index of the first occurrence of c, or -1
Find(s, c) ==
    IF \E i \in 1..Len(s) : s[i] = c
    THEN (CHOOSE i \in 1..Len(s) : s[i] = c /\ \A j \in 1..(i - 1) : s[j] # c) - 1
    ELSE -1

\* str.rfind(c): the 0-based index of the last occurrence of c, or -1
RFind(s, c) ==
    IF \E i \in 1..Len(s) : s[i] = c
    THEN (CHOOSE i \in 1..Len(s) : s[i] = c /\ \A j \in (i + 1)..Len(s) : s[j] # c) - 1
    ELSE -1

\* s[a:b] for 0 <= a, 0 <= b: empty when b <= a
Slice(s, a, b) ==
    LET hi == IF b > Len(s) THEN Len(s) ELSE b
    IN  IF hi <= a THEN <<>> ELSE SubSeq(s, a + 1, hi)

-----------------------------------------------------------------------------
(* json.loads over a text of JSON lexemes.                                 *)
(*   "{" "}" ":"  the punctuation of an object                             *)
(*   "s"          a string literal                                         *)
(*   "N"          an integer literal longer than the interpreter's limit   *)
(*                for int/str conversion (4300 digits): the scanner's      *)
(*                int() raises ValueError, not JSONDecodeError             *)
(*   "x"          any character that starts no JSON value                  *)
(* The scanner reads left to right and stops at the first error it meets.  *)

JsonLexemes == {"{", "}", ":", "s", "N", "x"}

JsonString == [type |-> "string", members |-> <<>>]
JsonObject(members) == [type |-> "object", members |-> members]

ScanOk(v, n) == [st |-> "ok", val |-> v, next |-> n]
ScanErr(e) == [st |-> e, val |-> JsonString, next |-> 0]

RECURSIVE ScanValue(_, _)
\* scan_once: the value starting at 1-based position i
ScanValue(s, i) ==
    IF i > Len(s) THEN ScanErr("JSONDecodeError")
    ELSE IF s[i] = "s" THEN ScanOk(JsonString, i + 1)
    ELSE IF s[i] = "N" THEN ScanErr("ValueError")
    ELSE IF s[i] # "{" THEN ScanErr("JSONDecodeError")
    \* JSONObject
    ELSE IF i + 1 > Len(s) THEN ScanErr("JSONDecodeError")
    ELSE IF s[i + 1] = "}" THEN ScanOk(JsonObject(<<>>), i + 2)
    ELSE IF s[i + 1] # "s" THEN ScanErr("JSONDecodeError")
    ELSE IF i + 2 > Len(s) \/ s[i + 2] # ":" THEN ScanErr("JSONDecodeError")
    ELSE LET v == ScanValue(s, i + 3)
         IN  IF v.st # "ok" THEN v
             ELSE IF v.next > Len(s) \/ s[v.next] # "}"
                  THEN ScanErr("JSONDecodeError")
                  ELSE ScanOk(JsonObject(<<[key |-> "s", val |-> v.val]>>), v.next + 1)

\* json.loads(s): decode one value, then "Extra data" if text remains
JsonLoads(s) ==
    LET r == ScanValue(s, 1)
    IN  IF r.st = "ok" /\ r.next <= Len(s) THEN ScanErr("JSONDecodeError") ELSE r

-----------------------------------------------------------------------------
(* ClaudeCodeGenerator._create_fallback_response *)

FALLBACK_VARIABLES_TF == <<"variable aws_region, environment, common_tags">>
FALLBACK_OUTPUTS_TF == <<"# Outputs will be defined based on created resources">>
FALLBACK_VERSIONS_TF == <<"terraform required_version, provider aws default_tags">>

\* a fallback that trims the response to its JSON candidate
CreateFallbackTrimmed(resp) ==
    << <<"main.tf", IF Find(resp, "{") = -1 THEN resp
                    ELSE Slice(resp, Find(resp, "{"), RFind(resp, "}") + 1)>>,
       <<"variables.tf", FALLBACK_VARIABLES_TF>>,
       <<"outputs.tf", FALLBACK_OUTPUTS_TF>>,
       <<"versions.tf", FALLBACK_VERSIONS_TF>> >>

CreateFallbackResponse(resp) ==
    << <<"main.tf", resp>>,
       <<"variables.tf", FALLBACK_VARIABLES_TF>>,
       <<"outputs.tf", FALLBACK_OUTPUTS_TF>>,
       <<"versions.tf", FALLBACK_VERSIONS_TF>> >>

-----------------------------------------------------------------------------
(* ClaudeCodeGenerator._parse_terraform_response *)

Decoded(v) == [kind |-> "decoded", value |-> v, files |-> <<>>, error |-> "none"]
Fallback(f) == [kind |-> "fallback", value |-> JsonString, files |-> f, error |-> "none"]
Raised(e) == [kind |-> "raised", value |-> JsonString, files |-> <<>>, error |-> e]
NotCalled == [kind |-> "none", value |-> JsonString, files |-> <<>>, error |-> "none"]

ParseTerraformResponseOf(resp) ==
    LET start_idx == Find(resp, "{")
        end_idx == RFind(resp, "}") + 1
    IN  IF start_idx # -1 /\ end_idx # -1
        THEN LET json_str == Slice(resp, start_idx, end_idx)
                 r == JsonLoads(json_str)
             IN  IF r.st = "ok" THEN Decoded(r.val)
                 ELSE IF r.st = "JSONDecodeError"
                      THEN Fallback(CreateFallbackResponse(resp))
                      ELSE Raised(r.st)
        ELSE Fallback(CreateFallbackResponse(resp))

-----------------------------------------------------------------------------
(* create_terraform_zip: zipfile.ZipFile(buffer, 'w', ZIP_DEFLATED) and one  *)
(* writestr(filename, content) per item of the dict.                        *)
(* A file name is a sequence of characters, "NUL" being chr(0); a content   *)
(* is a sequence of characters, encoded by writestr as UTF-8.               *)

NameChars == {"a", "NUL"}
ContentChars == {"a", "e_acute"}

\* str.encode("utf-8") of one character
Utf8(c) == IF c = "a" THEN <<97>> ELSE <<195, 169>>

RECURSIVE Utf8Encode(_)
Utf8Encode(text) ==
    IF text = <<>> THEN <<>> ELSE Utf8(Head(text)) \o Utf8Encode(Tail(text))

RECURSIVE Utf8Decode(_)
\* bytes.decode("utf-8") of what Utf8Encode wrote
Utf8Decode(bytes) ==
    IF bytes = <<>> THEN <<>>
    ELSE IF Head(bytes) = 97 THEN <<"a">> \o Utf8Decode(Tail(bytes))
    ELSE <<"e_acute">> \o Utf8Decode(Tail(Tail(bytes)))

\* ZipInfo.__init__: the file name ends at its first null byte (os.sep is
\* already "/" on the platforms the app is deployed on)
ZipInfoFilename(filename) ==
    LET null_byte == Find(filename, "NUL")
    IN  IF null_byte >= 0 THEN Slice(filename, 0, null_byte) ELSE filename

\* an entry written without its content
ZipEntryNoData(item) ==
    [filename |-> ZipInfoFilename(item[1]),
     compress_type |-> "ZIP_DEFLATED",
     data |-> <<>>]

ZipEntry(item) ==
    [filename |-> ZipInfoFilename(item[1]),
     compress_type |-> "ZIP_DEFLATED",
     data |-> Utf8Encode(item[2])]

ZipOk(entries) == [error |-> "none", entries |-> entries]
ZipRaised(e) == [error |-> e, entries |-> <<>>]
ZipNotCalled == [error |-> "not called", entries |-> <<>>]

\* writestr tests zinfo.filename[-1] (IndexError on an empty name) in the
\* releases up to 3.11 and zinfo.filename.endswith('/') after: an item whose
\* stored name is empty raises or is written, by the interpreter's release
CreateTerraformZipOf(dict, emptyNameRaises) ==
    IF emptyNameRaises /\ \E i \in 1..Len(dict) : ZipInfoFilename(dict[i][1]) = <<>>
    THEN ZipRaised("IndexError")
    ELSE ZipOk([i \in 1..Len(dict) |-> ZipEntry(dict[i])])

\* ZipFile(...).infolist() read back into (name, text) items
ReadZip(zip) ==
    [i \in 1..Len(zip.entries) |->
        <<zip.entries[i].filename, Utf8Decode(zip.entries[i].data)>>]

-----------------------------------------------------------------------------
(* Character helpers for pattern names *)

\* needle in hay, for two character sequences
Contains(hay, needle) ==
    \E i \in 0..(Len(hay) - Len(needle)) : SubSeq(hay, i + 1, i + Len(needle)) = needle

UpperCase == <<"A", "B", "C", "D", "E", "F", "G", "H", "I", "J", "K", "L", "M",
               "N", "O", "P", "Q", "R", "S", "T", "U", "V", "W", "X", "Y", "Z">>
LowerCase == <<"a", "b", "c", "d", "e", "f", "g", "h", "i", "j", "k", "l", "m",
               "n", "o", "p", "q", "r", "s", "t", "u", "v", "w", "x", "y", "z">>

LowerChar(c) ==
    IF \E i \in 1..Len(UpperCase) : UpperCase[i] = c
    THEN LowerCase[CHOOSE i \in 1..Len(UpperCase) : UpperCase[i] = c]
    ELSE c

\* name.lower().replace(' ', '-')
Slug(name) ==
    [i \in 1..Len(name) |-> IF name[i] = " " THEN "-" ELSE LowerChar(name[i])]

\* str.lower() of the provider, category and complexity values the app uses
Lower(w) ==
    CASE w = "All" -> "all"
      [] w = "AWS" -> "aws"
      [] w = "Azure" -> "azure"
      [] w = "GCP" -> "gcp"
      [] OTHER -> w

-----------------------------------------------------------------------------
(* GitHubPatternFetcher.fetch_aws_patterns *)

predefined_patterns ==
    <<
      [name |-> <<"V", "P", "C", " ", "M", "o", "d", "u", "l", "e">>,
       description |-> "Complete VPC setup with public/private subnets, NAT gateway, and internet gateway",
       category |-> "networking", complexity |-> "intermediate",
       files |-> <<"main.tf", "variables.tf", "outputs.tf">>],
      [name |-> <<"S", "e", "c", "u", "r", "i", "t", "y", " ", "G", "r", "o", "u", "p", "s">>,
       description |-> "Reusable security groups for web, database, and application tiers",
       category |-> "security", complexity |-> "beginner",
       files |-> <<"main.tf", "variables.tf", "outputs.tf">>],
      [name |-> <<"N", "A", "T", " ", "G", "a", "t", "e", "w", "a", "y">>,
       description |-> "NAT Gateway with Elastic IP for private subnet internet access",
       category |-> "networking", complexity |-> "beginner",
       files |-> <<"main.tf", "variables.tf", "outputs.tf">>],
      [name |-> <<"E", "C", "2", " ", "I", "n", "s", "t", "a", "n", "c", "e">>,
       description |-> "Configurable EC2 instance with security groups and key pair management",
       category |-> "compute", complexity |-> "beginner",
       files |-> <<"main.tf", "variables.tf", "outputs.tf">>],
      [name |-> <<"A", "u", "t", "o", " ", "S", "c", "a", "l", "i", "n", "g", " ", "G", "r", "o", "u", "p">>,
       description |-> "Auto Scaling Group with Launch Template and multiple AZ support",
       category |-> "compute", complexity |-> "intermediate",
       files |-> <<"main.tf", "variables.tf", "outputs.tf">>],
      [name |-> <<"L", "a", "m", "b", "d", "a", " ", "F", "u", "n", "c", "t", "i", "o", "n">>,
       description |-> "Serverless Lambda function with IAM role, CloudWatch logs, and API Gateway integration",
       category |-> "compute", complexity |-> "intermediate",
       files |-> <<"main.tf", "variables.tf", "outputs.tf">>],
      [name |-> <<"E", "K", "S", " ", "C", "l", "u", "s", "t", "e", "r">>,
       description |-> "Complete EKS cluster with node groups, IRSA, and add-ons",
       category |-> "compute", complexity |-> "advanced",
       files |-> <<"main.tf", "variables.tf", "outputs.tf", "eks-cluster.tf", "eks-nodes.tf">>],
      [name |-> <<"E", "C", "S", " ", "C", "l", "u", "s", "t", "e", "r">>,
       description |-> "ECS cluster with Fargate support and service discovery",
       category |-> "compute", complexity |-> "intermediate",
       files |-> <<"main.tf", "variables.tf", "outputs.tf">>],
      [name |-> <<"S", "3", " ", "B", "u", "c", "k", "e", "t">>,
       description |-> "S3 bucket with versioning, encryption, lifecycle policies, and CloudFront integration",
       category |-> "storage", complexity |-> "beginner",
       files |-> <<"main.tf", "variables.tf", "outputs.tf">>],
      [name |-> <<"E", "F", "S", " ", "F", "i", "l", "e", " ", "S", "y", "s", "t", "e", "m">>,
       description |-> "Elastic File System with mount targets and backup policies",
       category |-> "storage", complexity |-> "intermediate",
       files |-> <<"main.tf", "variables.tf", "outputs.tf">>],
      [name |-> <<"R", "D", "S", " ", "D", "a", "t", "a", "b", "a", "s", "e">>,
       description |-> "MySQL/PostgreSQL RDS with Multi-AZ, read replicas, and automated backups",
       category |-> "database", complexity |-> "intermediate",
       files |-> <<"main.tf", "variables.tf", "outputs.tf">>],
      [name |-> <<"E", "l", "a", "s", "t", "i", "C", "a", "c", "h", "e", " ", "R", "e", "d", "i", "s">>,
       description |-> "Redis cluster with replication group and subnet group",
       category |-> "database", complexity |-> "intermediate",
       files |-> <<"main.tf", "variables.tf", "outputs.tf">>],
      [name |-> <<"D", "y", "n", "a", "m", "o", "D", "B", " ", "T", "a", "b", "l", "e">>,
       description |-> "DynamoDB table with GSI, backup, and point-in-time recovery",
       category |-> "database", complexity |-> "beginner",
       files |-> <<"main.tf", "variables.tf", "outputs.tf">>],
      [name |-> <<"A", "p", "p", "l", "i", "c", "a", "t", "i", "o", "n", " ", "L", "o", "a", "d", " ", "B", "a", "l", "a", "n", "c", "e", "r">>,
       description |-> "ALB with target groups, health checks, SSL termination, and WAF integration",
       category |-> "networking", complexity |-> "intermediate",
       files |-> <<"main.tf", "variables.tf", "outputs.tf">>],
      [name |-> <<"N", "e", "t", "w", "o", "r", "k", " ", "L", "o", "a", "d", " ", "B", "a", "l", "a", "n", "c", "e", "r">>,
       description |-> "NLB for high-performance TCP/UDP load balancing",
       category |-> "networking", complexity |-> "intermediate",
       files |-> <<"main.tf", "variables.tf", "outputs.tf">>],
      [name |-> <<"C", "l", "o", "u", "d", "F", "r", "o", "n", "t", " ", "D", "i", "s", "t", "r", "i", "b", "u", "t", "i", "o", "n">>,
       description |-> "CloudFront CDN with S3 origin, custom headers, and caching policies",
       category |-> "networking", complexity |-> "intermediate",
       files |-> <<"main.tf", "variables.tf", "outputs.tf">>],
      [name |-> <<"R", "o", "u", "t", "e", "5", "3", " ", "D", "N", "S">>,
       description |-> "Route53 hosted zone with health checks and alias records",
       category |-> "networking", complexity |-> "beginner",
       files |-> <<"main.tf", "variables.tf", "outputs.tf">>],
      [name |-> <<"A", "P", "I", " ", "G", "a", "t", "e", "w", "a", "y">>,
       description |-> "REST API Gateway with Lambda integration, CORS, and API keys",
       category |-> "compute", complexity |-> "intermediate",
       files |-> <<"main.tf", "variables.tf", "outputs.tf">>],
      [name |-> <<"S", "Q", "S", " ", "Q", "u", "e", "u", "e">>,
       description |-> "SQS queue with dead letter queue and visibility timeout",
       category |-> "messaging", complexity |-> "beginner",
       files |-> <<"main.tf", "variables.tf", "outputs.tf">>],
      [name |-> <<"S", "N", "S", " ", "T", "o", "p", "i", "c">>,
       description |-> "SNS topic with subscriptions and delivery policies",
       category |-> "messaging", complexity |-> "beginner",
       files |-> <<"main.tf", "variables.tf", "outputs.tf">>],
      [name |-> <<"I", "A", "M", " ", "R", "o", "l", "e", "s", " ", "&", " ", "P", "o", "l", "i", "c", "i", "e", "s">>,
       description |-> "Reusable IAM roles for EC2, Lambda, and EKS with least privilege policies",
       category |-> "security", complexity |-> "intermediate",
       files |-> <<"main.tf", "variables.tf", "outputs.tf">>],
      [name |-> <<"S", "e", "c", "r", "e", "t", "s", " ", "M", "a", "n", "a", "g", "e", "r">>,
       description |-> "AWS Secrets Manager for database credentials and API keys with rotation",
       category |-> "security", complexity |-> "beginner",
       files |-> <<"main.tf", "variables.tf", "outputs.tf">>],
      [name |-> <<"P", "a", "r", "a", "m", "e", "t", "e", "r", " ", "S", "t", "o", "r", "e">>,
       description |-> "Systems Manager Parameter Store for configuration management",
       category |-> "security", complexity |-> "beginner",
       files |-> <<"main.tf", "variables.tf", "outputs.tf">>],
      [name |-> <<"C", "l", "o", "u", "d", "W", "a", "t", "c", "h", " ", "M", "o", "n", "i", "t", "o", "r", "i", "n", "g">>,
       description |-> "CloudWatch alarms, dashboards, and log groups with metric filters",
       category |-> "monitoring", complexity |-> "intermediate",
       files |-> <<"main.tf", "variables.tf", "outputs.tf">>],
      [name |-> <<"E", "C", "R", " ", "R", "e", "p", "o", "s", "i", "t", "o", "r", "y">>,
       description |-> "Elastic Container Registry with lifecycle policies and image scanning",
       category |-> "devops", complexity |-> "beginner",
       files |-> <<"main.tf", "variables.tf", "outputs.tf">>],
      [name |-> <<"C", "o", "d", "e", "P", "i", "p", "e", "l", "i", "n", "e">>,
       description |-> "Complete CI/CD pipeline with CodeBuild, CodeDeploy, and S3 artifacts",
       category |-> "devops", complexity |-> "advanced",
       files |-> <<"main.tf", "variables.tf", "outputs.tf", "buildspec.yml">>],
      [name |-> <<"3", "-", "T", "i", "e", "r", " ", "W", "e", "b", " ", "A", "p", "p", "l", "i", "c", "a", "t", "i", "o", "n">>,
       description |-> "Complete 3-tier architecture with ALB, ASG, RDS, and CloudFront",
       category |-> "architecture", complexity |-> "advanced",
       files |-> <<"main.tf", "variables.tf", "outputs.tf", "web-tier.tf", "app-tier.tf", "db-tier.tf">>],
      [name |-> <<"S", "e", "r", "v", "e", "r", "l", "e", "s", "s", " ", "W", "e", "b", " ", "A", "p", "p">>,
       description |-> "Serverless architecture with Lambda, API Gateway, DynamoDB, and S3",
       category |-> "architecture", complexity |-> "advanced",
       files |-> <<"main.tf", "variables.tf", "outputs.tf", "lambda.tf", "api-gateway.tf">>],
      [name |-> <<"D", "a", "t", "a", " ", "L", "a", "k", "e", " ", "A", "r", "c", "h", "i", "t", "e", "c", "t", "u", "r", "e">>,
       description |-> "S3 data lake with Glue, Athena, and EMR for big data processing",
       category |-> "architecture", complexity |-> "advanced",
       files |-> <<"main.tf", "variables.tf", "outputs.tf", "data-lake.tf", "glue.tf">>]
    >>

\* a pattern built with the provider in upper case
TerraformPatternUpperProvider(pattern_data) ==
    [name |-> pattern_data.name,
     description |-> pattern_data.description,
     path |-> <<"terraform-aws-modules/">> \o Slug(pattern_data.name),
     download_url |-> "https://github.com/terraform-aws-modules",
     category |-> pattern_data.category,
     provider |-> "AWS",
     complexity |-> pattern_data.complexity,
     files |-> pattern_data.files]

TerraformPatternOf(pattern_data) ==
    [name |-> pattern_data.name,
     description |-> pattern_data.description,
     path |-> <<"terraform-aws-modules/">> \o Slug(pattern_data.name),
     download_url |-> "https://github.com/terraform-aws-modules",
     category |-> pattern_data.category,
     provider |-> "aws",
     complexity |-> pattern_data.complexity,
     files |-> pattern_data.files]

FetchAwsPatterns ==
    [i \in 1..Len(predefined_patterns) |-> TerraformPatternOf(predefined_patterns[i])]

-----------------------------------------------------------------------------
(* GitHubPatternFetcher.get_pattern_code and the _get_*_code methods.       *)
(* Where the class defines a method twice the later definition is the one  *)
(* bound; _get_vpc_code, _get_ec2_code and _get_s3_code are defined nowhere, *)
(* so calling them raises AttributeError.                                  *)

CodeOk(files) == [error |-> "none", files |-> files]
CodeRaised(e) == [error |-> e, files |-> <<>>]

BASIC_VARIABLES_TF == <<"variable aws_region, environment">>
BASIC_OUTPUTS_TF == <<"# Add your outputs here">>

GetBasicCode(pattern_name) ==
    CodeOk(<< <<"main.tf",
                <<"# ">> \o pattern_name \o <<" Configuration; basic template for ">>
                    \o pattern_name \o <<"; terraform, provider aws; # Add your ">>
                    \o pattern_name \o <<" resources here">> >>,
              <<"variables.tf", BASIC_VARIABLES_TF>>,
              <<"outputs.tf", BASIC_OUTPUTS_TF>> >>)

GetLambdaCode ==
    CodeOk(<< <<"main.tf", <<"# Lambda Function">> >>,
              <<"variables.tf", <<"variable environment, function_name, ...">> >>,
              <<"outputs.tf", <<"output lambda_function_arn, ...">> >> >>)

GetVpcCode == CodeRaised("AttributeError")
GetEc2Code == CodeRaised("AttributeError")
GetRdsCode == GetBasicCode(<<"R", "D", "S", " ", "D", "a", "t", "a", "b", "a", "s", "e">>)
GetS3Code == CodeRaised("AttributeError")
GetAlbCode == GetBasicCode(<<"A", "p", "p", "l", "i", "c", "a", "t", "i", "o", "n", " ", "L", "o", "a", "d", " ", "B", "a", "l", "a", "n", "c", "e", "r">>)
GetEksCode == GetBasicCode(<<"E", "K", "S", " ", "C", "l", "u", "s", "t", "e", "r">>)
GetAsgCode == GetBasicCode(<<"A", "u", "t", "o", " ", "S", "c", "a", "l", "i", "n", "g", " ", "G", "r", "o", "u", "p">>)
GetCloudfrontCode == GetBasicCode(<<"C", "l", "o", "u", "d", "F", "r", "o", "n", "t", " ", "D", "i", "s", "t", "r", "i", "b", "u", "t", "i", "o", "n">>)
GetApiGatewayCode == GetBasicCode(<<"A", "P", "I", " ", "G", "a", "t", "e", "w", "a", "y">>)
GetSqsCode == GetBasicCode(<<"S", "Q", "S", " ", "Q", "u", "e", "u", "e">>)
GetSnsCode == GetBasicCode(<<"S", "N", "S", " ", "T", "o", "p", "i", "c">>)
GetIamCode == GetBasicCode(<<"I", "A", "M", " ", "R", "o", "l", "e", "s", " ", "a", "n", "d", " ", "P", "o", "l", "i", "c", "i", "e", "s">>)
GetSecretsManagerCode == GetBasicCode(<<"A", "W", "S", " ", "S", "e", "c", "r", "e", "t", "s", " ", "M", "a", "n", "a", "g", "e", "r">>)
GetCloudwatchCode == GetBasicCode(<<"C", "l", "o", "u", "d", "W", "a", "t", "c", "h", " ", "M", "o", "n", "i", "t", "o", "r", "i", "n", "g">>)
GetDynamodbCode == GetBasicCode(<<"D", "y", "n", "a", "m", "o", "D", "B", " ", "T", "a", "b", "l", "e">>)
GetElasticacheCode == GetBasicCode(<<"E", "l", "a", "s", "t", "i", "C", "a", "c", "h", "e", " ", "R", "e", "d", "i", "s", " ", "C", "l", "u", "s", "t", "e", "r">>)
GetRoute53Code == GetBasicCode(<<"R", "o", "u", "t", "e", "5", "3", " ", "D", "N", "S", " ", "C", "o", "n", "f", "i", "g", "u", "r", "a", "t", "i", "o", "n">>)
GetSecurityGroupsCode == GetBasicCode(<<"S", "e", "c", "u", "r", "i", "t", "y", " ", "G", "r", "o", "u", "p", "s", " ", "C", "o", "n", "f", "i", "g", "u", "r", "a", "t", "i", "o", "n">>)
GetThreeTierCode == GetBasicCode(<<"3", "-", "T", "i", "e", "r", " ", "W", "e", "b", " ", "A", "p", "p", "l", "i", "c", "a", "t", "i", "o", "n", " ", "A", "r", "c", "h", "i", "t", "e", "c", "t", "u", "r", "e">>)
GetServerlessWebappCode == GetBasicCode(<<"S", "e", "r", "v", "e", "r", "l", "e", "s", "s", " ", "W", "e", "b", " ", "A", "p", "p", "l", "i", "c", "a", "t", "i", "o", "n">>)

\* a lookup that builds the bundle from the files the pattern declares
GetPatternCodeDeclaredFiles(pattern) ==
    CodeOk([i \in 1..Len(pattern.files) |->
               <<pattern.files[i], <<"# ">> \o pattern.name \o <<" Configuration">> >>])

GetPatternCode(pattern) ==
    IF Contains(pattern.name, <<"V", "P", "C">>)
        THEN GetVpcCode
    ELSE IF Contains(pattern.name, <<"E", "C", "2">>)
        THEN GetEc2Code
    ELSE IF Contains(pattern.name, <<"R", "D", "S">>)
        THEN GetRdsCode
    ELSE IF Contains(pattern.name, <<"S", "3">>)
        THEN GetS3Code
    ELSE IF Contains(pattern.name, <<"A", "p", "p", "l", "i", "c", "a", "t", "i", "o", "n", " ", "L", "o", "a", "d", " ", "B", "a", "l", "a", "n", "c", "e", "r">>)
        THEN GetAlbCode
    ELSE IF Contains(pattern.name, <<"E", "K", "S">>)
        THEN GetEksCode
    ELSE IF Contains(pattern.name, <<"L", "a", "m", "b", "d", "a">>)
        THEN GetLambdaCode
    ELSE IF Contains(pattern.name, <<"A", "u", "t", "o", " ", "S", "c", "a", "l", "i", "n", "g">>)
        THEN GetAsgCode
    ELSE IF Contains(pattern.name, <<"C", "l", "o", "u", "d", "F", "r", "o", "n", "t">>)
        THEN GetCloudfrontCode
    ELSE IF Contains(pattern.name, <<"A", "P", "I", " ", "G", "a", "t", "e", "w", "a", "y">>)
        THEN GetApiGatewayCode
    ELSE IF Contains(pattern.name, <<"S", "Q", "S">>)
        THEN GetSqsCode
    ELSE IF Contains(pattern.name, <<"S", "N", "S">>)
        THEN GetSnsCode
    ELSE IF Contains(pattern.name, <<"I", "A", "M">>)
        THEN GetIamCode
    ELSE IF Contains(pattern.name, <<"S", "e", "c", "r", "e", "t", "s", " ", "M", "a", "n", "a", "g", "e", "r">>)
        THEN GetSecretsManagerCode
    ELSE IF Contains(pattern.name, <<"C", "l", "o", "u", "d", "W", "a", "t", "c", "h">>)
        THEN GetCloudwatchCode
    ELSE IF Contains(pattern.name, <<"D", "y", "n", "a", "m", "o", "D", "B">>)
        THEN GetDynamodbCode
    ELSE IF Contains(pattern.name, <<"E", "l", "a", "s", "t", "i", "C", "a", "c", "h", "e">>)
        THEN GetElasticacheCode
    ELSE IF Contains(pattern.name, <<"R", "o", "u", "t", "e", "5", "3">>)
        THEN GetRoute53Code
    ELSE IF Contains(pattern.name, <<"S", "e", "c", "u", "r", "i", "t", "y", " ", "G", "r", "o", "u", "p", "s">>)
        THEN GetSecurityGroupsCode
    ELSE IF Contains(pattern.name, <<"3", "-", "T", "i", "e", "r">>)
        THEN GetThreeTierCode
    ELSE IF Contains(pattern.name, <<"S", "e", "r", "v", "e", "r", "l", "e", "s", "s", " ", "W", "e", "b">>)
        THEN GetServerlessWebappCode
    ELSE GetBasicCode(pattern.name)

-----------------------------------------------------------------------------
(* render_pattern_browser_updated: one run of the view per user action.     *)
(* The three select boxes keep their values between runs; a button is True  *)
(* only in the run its click triggers.                                     *)

ProviderChoices == {"All", "AWS", "Azure", "GCP"}
CategoryChoices == {"All", "compute", "storage", "networking", "database", "security",
                    "messaging", "monitoring", "devops", "architecture"}
ComplexityChoices == {"All", "beginner", "intermediate", "advanced"}

\* [x for x in seq if Test(x)]
RECURSIVE SelectSeq2(_, _)
SelectSeq2(seq, keep) ==
    IF seq = <<>> THEN <<>>
    ELSE IF Head(seq) \in keep THEN <<Head(seq)>> \o SelectSeq2(Tail(seq), keep)
    ELSE SelectSeq2(Tail(seq), keep)

Range(seq) == {seq[i] : i \in 1..Len(seq)}

\* filters that leave the complexity selection out
ApplyFiltersIgnoringComplexity(patterns, pf, cf, xf) ==
    LET p1 == IF pf # "All"
              THEN SelectSeq2(patterns, {p \in Range(patterns) : Lower(p.provider) = Lower(pf)})
              ELSE patterns
        p2 == IF cf # "All"
              THEN SelectSeq2(p1, {p \in Range(p1) : Lower(p.category) = Lower(cf)})
              ELSE p1
    IN  p2

\* the three "Apply filters" statements of the Refresh button
ApplyFilters(patterns, pf, cf, xf) ==
    LET p1 == IF pf # "All"
              THEN SelectSeq2(patterns, {p \in Range(patterns) : Lower(p.provider) = Lower(pf)})
              ELSE patterns
        p2 == IF cf # "All"
              THEN SelectSeq2(p1, {p \in Range(p1) : Lower(p.category) = Lower(cf)})
              ELSE p1
        p3 == IF xf # "All"
              THEN SelectSeq2(p2, {p \in Range(p2) : Lower(p.complexity) = Lower(xf)})
              ELSE p2
    IN  p3

\* the "Display patterns" part of the view: the hint before the first
\* Refresh, the warning for an empty list, else one expander per pattern
Display(session) ==
    IF ~session.set
    THEN [info |-> TRUE, warning |-> FALSE, patterns |-> <<>>]
    ELSE IF session.list = <<>>
    THEN [info |-> FALSE, warning |-> TRUE, patterns |-> <<>>]
    ELSE [info |-> FALSE, warning |-> FALSE, patterns |-> session.list]

NoDownload == [kind |-> "none", pattern |-> <<>>, files |-> <<>>, file_name |-> <<>>]

\* the body of "if st.button(Download)": get_pattern_code is not guarded by a
\* try, so an exception it raises ends the run with Streamlit's traceback
DownloadOf(pattern) ==
    LET pattern_files == GetPatternCode(pattern)
    IN  IF pattern_files.error # "none"
        THEN [kind |-> "unhandled " \o pattern_files.error, pattern |-> pattern.name,
              files |-> <<>>, file_name |-> <<>>]
        ELSE IF pattern_files.files # <<>>
        THEN [kind |-> "ready for download", pattern |-> pattern.name,
              files |-> pattern_files.files,
              file_name |-> Slug(pattern.name) \o <<".zip">>]
        ELSE [kind |-> "Failed to generate pattern files", pattern |-> pattern.name,
              files |-> <<>>, file_name |-> <<>>]

-----------------------------------------------------------------------------
(* ClaudeCodeGenerator._build_generation_prompt.  A requirements dict is a   *)
(* function from its keys to their values; the prompt is the sequence of   *)
(* the template's fragments and the str() of the interpolated values.      *)

ReqFields ==
    {"provider", "environment", "region", "project_name", "services", "description",
     "compliance", "vpc_config", "ha_required", "backup_required", "monitoring",
     "auto_scaling", "cost_optimization", "security_hardening"}

\* dict.get(key, default)
Get(dict, key, default) == IF key \in DOMAIN dict THEN dict[key] ELSE default

\* str(bool), as an f-string interpolates it
StrBool(b) == IF b THEN "True" ELSE "False"

RECURSIVE JoinComma(_)
\* ', '.join(list)
JoinComma(list) ==
    IF list = <<>> THEN <<>>
    ELSE IF Len(list) = 1 THEN <<list[1]>>
    ELSE <<list[1], ", ">> \o JoinComma(Tail(list))

BuildGenerationPrompt(reqs) ==
    LET services_list == JoinComma(Get(reqs, "services", <<>>))
    IN  <<"You are an expert Terraform engineer. Generate production-ready Terraform code based on these requirements:",
          "**Infrastructure Requirements:**",
          "- Cloud Provider: ", Get(reqs, "provider", "AWS"),
          "- Project Name: ", Get(reqs, "project_name", "infrastructure"),
          "- Services Needed: ">> \o services_list \o
        <<"- Environment: ", Get(reqs, "environment", "development"),
          "- Region: ", Get(reqs, "region", "us-west-2"),
          "**Project Details:**",
          "- Description: ", Get(reqs, "description", "Infrastructure deployment"),
          "- High Availability: ", StrBool(Get(reqs, "ha_required", FALSE)),
          "- Backup Required: ", StrBool(Get(reqs, "backup_required", FALSE)),
          "- Monitoring: ", StrBool(Get(reqs, "monitoring", FALSE)),
          "- Auto Scaling: ", StrBool(Get(reqs, "auto_scaling", FALSE)),
          "**Security & Compliance:**",
          "- Compliance: ", Get(reqs, "compliance", "Standard"),
          "- Security Hardening: ", StrBool(Get(reqs, "security_hardening", TRUE)),
          "- VPC Configuration: ", Get(reqs, "vpc_config", "Default"),
          "Please generate these files: 1. main.tf 2. variables.tf 3. outputs.tf 4. versions.tf",
          "Follow these best practices:",
          "- Use consistent naming with ", Get(reqs, "environment", "dev"), " prefix",
          "- Include proper tags ... - Include proper resource dependencies",
          "Return your response in this exact JSON format: { main.tf, variables.tf, outputs.tf, versions.tf }">>

-----------------------------------------------------------------------------
(* ClaudeCodeGenerator.generate_terraform_code.  api is what                *)
(* client.messages.create does: it raises, or returns a response text.      *)

StrContent(text) == [type |-> "str", text |-> text]
DictContent == [type |-> "dict", text |-> <<>>]

\* the dict json.loads returned, as (file name, content) items: a member's
\* value is a str or, for a nested object, a dict
FilesOfJson(value) ==
    [i \in 1..Len(value.members) |->
        [name |-> value.members[i].key,
         content |-> IF value.members[i].val.type = "string"
                     THEN StrContent(<<"s">>) ELSE DictContent]]

FilesOfFallback(files) ==
    [i \in 1..Len(files) |-> [name |-> files[i][1], content |-> StrContent(files[i][2])]]

Generation(requests, errors, files, sent) ==
    [requests |-> requests, errors |-> errors, files |-> files, prompt |-> sent]

\* a generator that asks again once when the request fails
GenerateTerraformCodeRetry(client, reqs, api) ==
    IF ~client THEN Generation(0, <<>>, <<>>, <<>>)
    ELSE IF api.kind = "error"
         THEN Generation(2, <<"Claude API error">>, <<>>, BuildGenerationPrompt(reqs))
         ELSE Generation(1, <<>>, FilesOfFallback(CreateFallbackResponse(api.text)),
                         BuildGenerationPrompt(reqs))

\* a generator that answers a failed request with the fallback files
GenerateTerraformCodeFallbackOnError(client, reqs, api) ==
    IF ~client THEN Generation(0, <<>>, <<>>, <<>>)
    ELSE Generation(1, <<>>, FilesOfFallback(CreateFallbackResponse(api.text)),
                    BuildGenerationPrompt(reqs))

GenerateTerraformCode(client, reqs, api) ==
    IF ~client THEN Generation(0, <<>>, <<>>, <<>>)
    ELSE LET sent == BuildGenerationPrompt(reqs)
         IN  IF api.kind = "error"
             THEN Generation(1, <<"Claude API error">>, <<>>, sent)
             ELSE LET p == ParseTerraformResponseOf(api.text)
                  IN  IF p.kind = "raised"
                      THEN Generation(1, <<"Claude API error">>, <<>>, sent)
                      ELSE IF p.kind = "decoded"
                      THEN Generation(1, <<>>, FilesOfJson(p.value), sent)
                      ELSE Generation(1, <<>>, FilesOfFallback(p.files), sent)

-----------------------------------------------------------------------------
(* render_requirements_collector *)

\* the widgets of the form at submit time; the options that only feed the
\* prompt stay at the widgets' defaults
FormInputs ==
    {[provider |-> pr, environment |-> en, region |-> "us-west-2",
      project_name |-> pn, services |-> se, description |-> de,
      compliance |-> "Standard", vpc_config |-> "Default",
      ha_required |-> FALSE, backup_required |-> FALSE, monitoring |-> FALSE,
      auto_scaling |-> FALSE, cost_optimization |-> cs, security_hardening |-> TRUE] :
        pr \in {"AWS", "Azure", "GCP"}, en \in {"development", "production"},
        pn \in {"", "my-project"},
        se \in {<<>>, <<"EC2">>, <<"EC2", "S3">>}, de \in {"", "a web application"},
        cs \in BOOLEAN}

\* the multiselect of services is rendered for AWS only
Forms == {form \in FormInputs : form.provider # "AWS" => form.services = <<>>}

\* the widgets as first rendered
DefaultForm ==
    [provider |-> "AWS", environment |-> "development", region |-> "us-west-2",
     project_name |-> "", services |-> <<>>, description |-> "",
     compliance |-> "Standard", vpc_config |-> "Default",
     ha_required |-> FALSE, backup_required |-> FALSE, monitoring |-> FALSE,
     auto_scaling |-> FALSE, cost_optimization |-> FALSE, security_hardening |-> TRUE]

Collected(unhandled, errors, returned, reqs) ==
    [unhandled |-> unhandled, errors |-> errors, returned |-> returned,
     requirements |-> reqs]

NoRequirements == [f \in {} |-> ""]

\* a collector that returns the record without looking at the description
RenderRequirementsCollectorNoDescriptionCheck(submitted, form) ==
    IF ~submitted THEN Collected("none", <<>>, FALSE, NoRequirements)
    ELSE IF form.project_name = ""
         THEN Collected("none", <<"Project name is required!">>, FALSE, NoRequirements)
    ELSE IF form.provider # "AWS"
         THEN Collected("UnboundLocalError", <<>>, FALSE, NoRequirements)
    ELSE IF form.services = <<>>
         THEN Collected("none", <<"Please select at least one service!">>, FALSE,
                        NoRequirements)
    ELSE Collected("none", <<>>, TRUE, [f \in ReqFields |-> form[f]])

\* `services` is assigned only under `if provider == "AWS"`: for another
\* provider `if not services` reads an unassigned local
RenderRequirementsCollector(submitted, form) ==
    IF ~submitted THEN Collected("none", <<>>, FALSE, NoRequirements)
    ELSE IF form.project_name = ""
         THEN Collected("none", <<"Project name is required!">>, FALSE, NoRequirements)
    ELSE IF form.provider # "AWS"
         THEN Collected("UnboundLocalError", <<>>, FALSE, NoRequirements)
    ELSE IF form.services = <<>>
         THEN Collected("none", <<"Please select at least one service!">>, FALSE,
                        NoRequirements)
    ELSE IF form.description = ""
         THEN Collected("none", <<"Project description is required!">>, FALSE,
                        NoRequirements)
    ELSE Collected("none", <<>>, TRUE, [f \in ReqFields |-> form[f]])

-----------------------------------------------------------------------------
(* render_code_generator.  st.download_button raises on data that is not a *)
(* str or bytes; the view's `except Exception` reports it.                  *)

Shown(errors, success, file_downloads, zip_download, jenkins_section) ==
    [errors |-> errors, success |-> success, file_downloads |-> file_downloads,
     zip_download |-> zip_download, jenkins_section |-> jenkins_section]

RenderCodeGenerator(generation) ==
    LET files == generation.files
        bad == {i \in 1..Len(files) : files[i].content.type # "str"}
        upto == IF bad = {} THEN Len(files)
                ELSE (CHOOSE i \in bad : \A j \in bad : i <= j) - 1
    IN  IF files = <<>>
        THEN Shown(generation.errors \o <<"Failed to generate code. Please try again with different requirements.">>,
                   FALSE, <<>>, FALSE, FALSE)
        ELSE IF bad # {}
        THEN Shown(generation.errors \o <<"Generation failed">>, TRUE,
                   [i \in 1..upto |-> files[i].name], FALSE, FALSE)
        ELSE Shown(generation.errors, TRUE, [i \in 1..Len(files) |-> files[i].name],
                   TRUE, TRUE)

-----------------------------------------------------------------------------
(* main(), module "AI Code Generator": one run of the page *)

\* render_jenkins_section: the pipeline text and its Jenkinsfile download are
\* rendered in a run where the section is rendered and its button is True
RenderJenkinsSection(rendered, clicked) ==
    [pipeline |-> rendered /\ clicked, jenkinsfile_download |-> rendered /\ clicked]

Run(constructed, submitted, form, unhandled, errors, returned, reqs, api, generation, shown, jenkins_clicked) ==
    [constructed |-> constructed, submitted |-> submitted, form |-> form,
     unhandled |-> unhandled,
     errors |-> errors, returned |-> returned, requirements |-> reqs, api |-> api,
     requests |-> generation.requests, prompt |-> generation.prompt,
     files |-> generation.files, success |-> shown.success,
     file_downloads |-> shown.file_downloads, zip_download |-> shown.zip_download,
     jenkins_section |-> shown.jenkins_section,
     jenkins_clicked |-> jenkins_clicked,
     pipeline |-> RenderJenkinsSection(shown.jenkins_section, jenkins_clicked).pipeline,
     jenkinsfile_download |->
         RenderJenkinsSection(shown.jenkins_section, jenkins_clicked).jenkinsfile_download]

NoGeneration == Generation(0, <<>>, <<>>, <<>>)
NothingShown == Shown(<<>>, FALSE, <<>>, FALSE, FALSE)

NoRun == Run(FALSE, FALSE, DefaultForm, "none", <<>>, FALSE, NoRequirements, "not called",
             NoGeneration, NothingShown, FALSE)

\* submitted and jenkins_clicked are the values st.form_submit_button and the
\* Jenkins st.button have in this run
RunAiCodeGenerator(key, installed, submitted, form, api, jenkins_clicked) ==
    IF ~key
    THEN Run(FALSE, FALSE, DefaultForm, "none", <<"Claude API key not configured!">>,
             FALSE, NoRequirements, "not called", NoGeneration, NothingShown,
             jenkins_clicked)
    ELSE LET ctor == IF installed THEN <<>> ELSE <<"Anthropic library not installed.">>
             rc == RenderRequirementsCollector(submitted, form)
         IN  IF rc.unhandled # "none" \/ ~rc.returned
             THEN Run(TRUE, submitted, form, rc.unhandled, ctor \o rc.errors, FALSE,
                      NoRequirements, "not called", NoGeneration, NothingShown,
                      jenkins_clicked)
             ELSE LET g == GenerateTerraformCode(installed, rc.requirements, api)
                      v == RenderCodeGenerator(g)
                  IN  Run(TRUE, submitted, form, "none", ctor \o v.errors, TRUE,
                          rc.requirements,
                          IF g.requests = 0 THEN "not called" ELSE api.kind, g, v,
                          jenkins_clicked)

-----------------------------------------------------------------------------
(* main(): the radio of the sidebar and the view it dispatches to.  A name  *)
(* the module never binds raises NameError when the call is reached.        *)

Modules == {"Pattern Browser", "AI Code Generator", "Analytics", "About"}

\* the functions the module defines at top level
DefinedViews ==
    {"render_pattern_browser_updated", "render_requirements_collector",
     "render_code_generator", "render_jenkins_section",
     "render_analytics_dashboard", "render_about_page"}

Dispatched(callee, unhandled) == [callee |-> callee, unhandled |-> unhandled]

NotDispatched == Dispatched("none", "none")

Call(callee) ==
    Dispatched(callee, IF callee \in DefinedViews THEN "none" ELSE "NameError")

MainDispatch(m, key) ==
    IF m = "Pattern Browser" THEN Call("render_pattern_browser")
    ELSE IF m = "AI Code Generator"
         THEN IF ~key THEN Dispatched("st.error", "none")
              ELSE Call("render_requirements_collector")
    ELSE IF m = "Analytics" THEN Call("render_analytics_dashboard")
    ELSE Call("render_about_page")

-----------------------------------------------------------------------------
(* Each specification exercises one part of the program and leaves the     *)
(* variables of the other parts at rest.                                   *)

IdleParse == response = <<>> /\ parsed = NotCalled
IdleZip == files_dict = <<>> /\ archive = ZipNotCalled
IdleBrowser ==
    /\ provider_filter = "All" /\ category_filter = "All" /\ complexity_filter = "All"
    /\ session_patterns = [set |-> FALSE, list |-> <<>>]
    /\ download = NoDownload
IdleLookup == lookup_patterns = <<>> /\ lookup_codes = <<>>
IdlePrompt == requirements = <<>> /\ prompt = <<>>
IdleGen ==
    /\ anthropic_key = FALSE /\ anthropic_installed = FALSE
    /\ gen = NoRun
    /\ validated_submissions = 0 /\ api_requests = 0
IdleMain == module = "Pattern Browser" /\ view = NotDispatched

-----------------------------------------------------------------------------
(* create_terraform_zip applied to every dict within the bounds *)

Names == UNION {[1..n -> NameChars] : n \in 0..MaxNameLen}
Contents == {<<>>, <<"a">>, <<"e_acute">>, <<"e_acute", "a">>}

\* the dicts of at most MaxFiles items: keys are pairwise distinct
Dicts ==
    {d \in UNION {[1..n -> Names \X Contents] : n \in 0..MaxFiles} :
        \A i, j \in 1..Len(d) : i # j => d[i][1] # d[j][1]}

InitZip ==
    /\ files_dict \in Dicts
    /\ archive = ZipNotCalled
    /\ IdleParse /\ IdleBrowser /\ IdleLookup /\ IdlePrompt /\ IdleGen /\ IdleMain

CreateTerraformZip ==
    /\ archive = ZipNotCalled
    /\ \E emptyNameRaises \in BOOLEAN :
           archive' = CreateTerraformZipOf(files_dict, emptyNameRaises)
    /\ UNCHANGED <<files_dict, parseVars, browserVars, lookupVars, promptVars, genVars, mainVars>>

NextZip == CreateTerraformZip

SpecZip == InitZip /\ [][NextZip]_vars

-----------------------------------------------------------------------------
(* The parser applied to every response text within the bound *)

Responses == UNION {[1..n -> JsonLexemes] : n \in 0..MaxResponseLen}

InitParse ==
    /\ response \in Responses
    /\ parsed = NotCalled
    /\ IdleZip /\ IdleBrowser /\ IdleLookup /\ IdlePrompt /\ IdleGen /\ IdleMain

ParseTerraformResponse ==
    /\ parsed.kind = "none"
    /\ parsed' = ParseTerraformResponseOf(response)
    /\ UNCHANGED <<response, zipVars, browserVars, lookupVars, promptVars, genVars, mainVars>>

NextParse == ParseTerraformResponse

SpecParse == InitParse /\ [][NextParse]_vars

-----------------------------------------------------------------------------
(* The pattern browser *)

InitBrowser ==
    /\ IdleBrowser
    /\ IdleParse /\ IdleZip /\ IdleLookup /\ IdlePrompt /\ IdleGen /\ IdleMain

SelectProviderFilter ==
    /\ \E v \in ProviderChoices \ {provider_filter} : provider_filter' = v
    /\ download' = NoDownload
    /\ UNCHANGED <<category_filter, complexity_filter, session_patterns>>
    /\ UNCHANGED <<parseVars, zipVars, lookupVars, promptVars, genVars, mainVars>>

SelectCategoryFilter ==
    /\ \E v \in CategoryChoices \ {category_filter} : category_filter' = v
    /\ download' = NoDownload
    /\ UNCHANGED <<provider_filter, complexity_filter, session_patterns>>
    /\ UNCHANGED <<parseVars, zipVars, lookupVars, promptVars, genVars, mainVars>>

SelectComplexityFilter ==
    /\ \E v \in ComplexityChoices \ {complexity_filter} : complexity_filter' = v
    /\ download' = NoDownload
    /\ UNCHANGED <<provider_filter, category_filter, session_patterns>>
    /\ UNCHANGED <<parseVars, zipVars, lookupVars, promptVars, genVars, mainVars>>

\* the run triggered by "Refresh Patterns"
ClickRefresh ==
    /\ session_patterns' =
           [set |-> TRUE,
            list |-> ApplyFilters(FetchAwsPatterns, provider_filter, category_filter,
                                  complexity_filter)]
    /\ download' = NoDownload
    /\ UNCHANGED <<provider_filter, category_filter, complexity_filter>>
    /\ UNCHANGED <<parseVars, zipVars, lookupVars, promptVars, genVars, mainVars>>

\* the run triggered by the Download button of the i-th displayed pattern
ClickDownload ==
    /\ session_patterns.set
    /\ \E i \in 1..Len(session_patterns.list) :
           download' = DownloadOf(session_patterns.list[i])
    /\ UNCHANGED <<provider_filter, category_filter, complexity_filter, session_patterns>>
    /\ UNCHANGED <<parseVars, zipVars, lookupVars, promptVars, genVars, mainVars>>

NextBrowser ==
    \/ SelectProviderFilter
    \/ SelectCategoryFilter
    \/ SelectComplexityFilter
    \/ ClickRefresh
    \/ ClickDownload

SpecBrowser == InitBrowser /\ [][NextBrowser]_vars

-----------------------------------------------------------------------------
(* get_pattern_code applied to pairs of TerraformPattern objects *)

TestNames ==
    {predefined_patterns[1].name,      \* VPC Module
     predefined_patterns[6].name,      \* Lambda Function
     predefined_patterns[8].name,      \* ECS Cluster
     <<"M", "y", " ", "E", "K", "S">>}

TestPatterns ==
    {[name |-> n, description |-> d, path |-> pa,
      download_url |-> "https://github.com/terraform-aws-modules",
      category |-> c, provider |-> pr, complexity |-> x, files |-> f] :
        n \in TestNames, d \in {"", "a description"}, pa \in {<<>>, <<"some/path">>},
        c \in {"compute", "storage"}, pr \in {"aws", "gcp"},
        x \in {"beginner", "advanced"}, f \in {<<>>, <<"main.tf", "extra.tf">>}}

InitLookup ==
    /\ lookup_patterns \in TestPatterns \X TestPatterns
    /\ lookup_codes = <<>>
    /\ IdleParse /\ IdleZip /\ IdleBrowser /\ IdlePrompt /\ IdleGen /\ IdleMain

CallGetPatternCode ==
    /\ Len(lookup_codes) < Len(lookup_patterns)
    /\ lookup_codes' =
           Append(lookup_codes, GetPatternCode(lookup_patterns[Len(lookup_codes) + 1]))
    /\ UNCHANGED lookup_patterns
    /\ UNCHANGED <<parseVars, zipVars, browserVars, promptVars, genVars, mainVars>>

NextLookup == CallGetPatternCode

SpecLookup == InitLookup /\ [][NextLookup]_vars

-----------------------------------------------------------------------------
(* _build_generation_prompt applied to every requirements dict of the form *)

FieldValues(f) ==
    CASE f = "provider" -> {"AWS", "Azure", "GCP"}
      [] f = "environment" -> {"development", "production"}
      [] f = "region" -> {"us-west-2", "eu-west-1"}
      [] f = "project_name" -> {"my-project", "shop"}
      [] f = "services" -> {<<"EC2">>, <<"EC2", "S3">>}
      [] f = "description" -> {"a web application", "a data pipeline"}
      [] f = "compliance" -> {"Standard", "HIPAA"}
      [] f = "vpc_config" -> {"Default", "Multi-AZ"}
      [] OTHER -> BOOLEAN

RequirementsDicts ==
    {[provider |-> pr, environment |-> en, region |-> re, project_name |-> pn,
      services |-> se, description |-> de, compliance |-> co, vpc_config |-> vp,
      ha_required |-> ha, backup_required |-> ba, monitoring |-> mo,
      auto_scaling |-> au, cost_optimization |-> cs, security_hardening |-> sh] :
        pr \in FieldValues("provider"), en \in FieldValues("environment"),
        re \in FieldValues("region"), pn \in FieldValues("project_name"),
        se \in FieldValues("services"), de \in FieldValues("description"),
        co \in FieldValues("compliance"), vp \in FieldValues("vpc_config"),
        ha \in BOOLEAN, ba \in BOOLEAN, mo \in BOOLEAN, au \in BOOLEAN,
        cs \in BOOLEAN, sh \in BOOLEAN}

InitPrompt ==
    /\ requirements \in RequirementsDicts
    /\ prompt = <<>>
    /\ IdleParse /\ IdleZip /\ IdleBrowser /\ IdleLookup /\ IdleGen /\ IdleMain

CallBuildGenerationPrompt ==
    /\ prompt = <<>>
    /\ prompt' = BuildGenerationPrompt(requirements)
    /\ UNCHANGED requirements
    /\ UNCHANGED <<parseVars, zipVars, browserVars, lookupVars, genVars, mainVars>>

NextPrompt == CallBuildGenerationPrompt

SpecPrompt == InitPrompt /\ [][NextPrompt]_vars

-----------------------------------------------------------------------------
(* _build_generation_prompt applied to dicts that lack some of the keys *)

\* a record none of whose values is the default the builder falls back to
NON_DEFAULT_REQUIREMENTS ==
    [provider |-> "GCP", environment |-> "production", region |-> "eu-west-1",
     project_name |-> "shop", services |-> <<"EC2", "S3">>,
     description |-> "a data pipeline", compliance |-> "HIPAA",
     vpc_config |-> "Multi-AZ", ha_required |-> TRUE, backup_required |-> TRUE,
     monitoring |-> TRUE, auto_scaling |-> TRUE, cost_optimization |-> TRUE,
     security_hardening |-> FALSE]

\* the dicts that hold any part of its keys, the empty dict included
PartialRequirementsDicts ==
    {[f \in keys |-> NON_DEFAULT_REQUIREMENTS[f]] : keys \in SUBSET ReqFields}

InitPromptDefaults ==
    /\ requirements \in PartialRequirementsDicts
    /\ prompt = <<>>
    /\ IdleParse /\ IdleZip /\ IdleBrowser /\ IdleLookup /\ IdleGen /\ IdleMain

SpecPromptDefaults == InitPromptDefaults /\ [][NextPrompt]_vars

-----------------------------------------------------------------------------
(* The AI Code Generator page *)

ApiOutcomes ==
    {[kind |-> "error", text |-> <<>>]}
    \cup {[kind |-> "response", text |-> r] :
            r \in {<<"{", "s", ":", "s", "}">>,             \* the files as JSON
                   <<"x", "{", "s", ":", "s", "}", "x">>,   \* JSON inside prose
                   <<"{", "}">>,                            \* the empty object
                   <<"x", "x">>,                            \* prose only
                   <<"{", "s", ":", "{", "}", "}">>,        \* a nested object
                   <<"{", "s", ":", "N", "}">>}}            \* json.loads raises

\* the API outcome of a run that does not reach the request
NoApi == [kind |-> "error", text |-> <<>>]

InitGen ==
    /\ anthropic_key \in BOOLEAN
    /\ anthropic_installed \in BOOLEAN
    /\ gen = RunAiCodeGenerator(anthropic_key, anthropic_installed, FALSE, DefaultForm,
                                NoApi, FALSE)
    /\ validated_submissions = 0
    /\ api_requests = 0
    /\ module = "AI Code Generator"
    /\ view = MainDispatch(module, anthropic_key)
    /\ IdleParse /\ IdleZip /\ IdleBrowser /\ IdleLookup /\ IdlePrompt

\* the run triggered by "Generate Terraform Code"
SubmitForm ==
    /\ anthropic_key
    /\ validated_submissions < MaxSubmissions
    /\ \E form \in Forms, api \in ApiOutcomes :
           /\ gen' = RunAiCodeGenerator(anthropic_key, anthropic_installed, TRUE, form,
                                        api, FALSE)
           /\ validated_submissions' =
                  validated_submissions + (IF gen'.returned THEN 1 ELSE 0)
           /\ api_requests' = api_requests + gen'.requests
    /\ UNCHANGED <<anthropic_key, anthropic_installed>>
    /\ UNCHANGED <<parseVars, zipVars, browserVars, lookupVars, promptVars, mainVars>>

\* a run the form did not trigger: the form button is False in it and the
\* widgets keep their values
RerunOf(jenkins_clicked) ==
    /\ gen' = RunAiCodeGenerator(anthropic_key, anthropic_installed, FALSE, gen.form,
                                 NoApi, jenkins_clicked)
    /\ api_requests' = api_requests + gen'.requests
    /\ UNCHANGED <<anthropic_key, anthropic_installed, validated_submissions>>
    /\ UNCHANGED <<parseVars, zipVars, browserVars, lookupVars, promptVars, mainVars>>

ClickDownloadFile == gen.file_downloads # <<>> /\ RerunOf(FALSE)

ClickDownloadZip == gen.zip_download /\ RerunOf(FALSE)

ClickGenerateJenkinsPipeline == gen.jenkins_section /\ RerunOf(TRUE)

\* the "Rerun" command of the app, available in every state of the page
ReloadPage == RerunOf(FALSE)

NextGen ==
    \/ SubmitForm
    \/ ClickDownloadFile
    \/ ClickDownloadZip
    \/ ClickGenerateJenkinsPipeline
    \/ ReloadPage

SpecGen == InitGen /\ [][NextGen]_vars

\* the user keeps using the page
SpecGenLive == SpecGen /\ WF_vars(NextGen)

-----------------------------------------------------------------------------
(* main() with its navigation *)

InitMain ==
    /\ anthropic_key \in BOOLEAN
    /\ anthropic_installed \in BOOLEAN
    /\ module = "Pattern Browser"
    /\ view = MainDispatch(module, anthropic_key)
    /\ gen = NoRun
    /\ validated_submissions = 0
    /\ api_requests = 0
    /\ IdleParse /\ IdleZip /\ IdleBrowser /\ IdleLookup /\ IdlePrompt

\* the run triggered by the radio: the widgets of a page that was not
\* rendered in the previous run start from their defaults
ChooseModule ==
    /\ \E m \in Modules \ {module} :
           /\ module' = m
           /\ view' = MainDispatch(m, anthropic_key)
           /\ gen' = IF m = "AI Code Generator"
                     THEN RunAiCodeGenerator(anthropic_key, anthropic_installed, FALSE,
                                             DefaultForm, NoApi, FALSE)
                     ELSE NoRun
    /\ UNCHANGED <<anthropic_key, anthropic_installed, validated_submissions, api_requests>>
    /\ UNCHANGED <<parseVars, zipVars, browserVars, lookupVars, promptVars>>

UseAiCodeGenerator == module = "AI Code Generator" /\ NextGen

NextMain ==
    \/ ChooseModule
    \/ UseAiCodeGenerator

SpecMain == InitMain /\ [][NextMain]_vars

-----------------------------------------------------------------------------
(* Properties of the parser and its fallback *)

\* the text running from the first "{" to the last "}", inclusive
HasCandidate(resp) ==
    \E i, j \in 1..Len(resp) :
        /\ resp[i] = "{" /\ resp[j] = "}" /\ i <= j
        /\ (\A k \in 1..(i - 1) : resp[k] # "{")
        /\ (\A k \in (j + 1)..Len(resp) : resp[k] # "}")

Candidate(resp) ==
    LET i == CHOOSE k \in 1..Len(resp) : resp[k] = "{" /\ \A m \in 1..(k - 1) : resp[m] # "{"
        j == CHOOSE k \in 1..Len(resp) : resp[k] = "}" /\ \A m \in (k + 1)..Len(resp) : resp[m] # "}"
    IN  SubSeq(resp, i, j)

RECURSIVE IsJsonValue(_)
\* the JSON grammar, independent of the scanner: a string, a number or an object
IsJsonValue(s) ==
    \/ s = <<"s">>
    \/ s = <<"N">>
    \/ s = <<"{", "}">>
    \/ /\ Len(s) >= 5
       /\ s[1] = "{" /\ s[2] = "s" /\ s[3] = ":" /\ s[Len(s)] = "}"
       /\ IsJsonValue(SubSeq(s, 4, Len(s) - 1))

RECURSIVE JsonValueOf(_)
\* the object a grammatical text denotes
JsonValueOf(s) ==
    IF s = <<"s">> \/ s = <<"N">> THEN JsonString
    ELSE IF s = <<"{", "}">> THEN JsonObject(<<>>)
    ELSE JsonObject(<<[key |-> "s", val |-> JsonValueOf(SubSeq(s, 4, Len(s) - 1))]>>)

\* C2: _parse_terraform_response is total with exactly two outcomes: the
\* decoded object when the text from the first "{" to the last "}" is a valid
\* JSON document, the fallback response in every other case; it never raises.
C2_TwoOutcomesNeverRaises ==
    parsed.kind # "none" =>
        IF HasCandidate(response) /\ IsJsonValue(Candidate(response))
        THEN parsed.kind = "decoded" /\ parsed.value = JsonValueOf(Candidate(response))
        ELSE parsed.kind = "fallback" /\ parsed.files = CreateFallbackResponse(response)

\* C3: the fallback response has exactly the four file names main.tf,
\* variables.tf, outputs.tf and versions.tf; main.tf is the raw response text
\* unchanged and the other three contents are fixed strings.
C3_FallbackShape ==
    parsed.kind = "fallback" =>
        /\ Len(parsed.files) = 4
        /\ [i \in 1..4 |-> parsed.files[i][1]]
               = <<"main.tf", "variables.tf", "outputs.tf", "versions.tf">>
        /\ parsed.files[1][2] = response
        /\ parsed.files[2][2] = FALLBACK_VARIABLES_TF
        /\ parsed.files[3][2] = FALLBACK_OUTPUTS_TF
        /\ parsed.files[4][2] = FALLBACK_VERSIONS_TF

\* a fallback taken on the JSONDecodeError path, for a response that has
\* text around its braces
C3_Witness ==
    /\ parsed.kind = "fallback"
    /\ Find(response, "{") > 0
    /\ RFind(response, "}") > Find(response, "{")
    /\ RFind(response, "}") + 1 < Len(response)

-----------------------------------------------------------------------------
(* Properties of create_terraform_zip *)

ArchiveHoldsDict ==
    /\ archive.error = "none"
    /\ Len(archive.entries) = Len(files_dict)
    /\ \A i \in 1..Len(files_dict) :
           /\ archive.entries[i].filename = files_dict[i][1]
           /\ Utf8Decode(archive.entries[i].data) = files_dict[i][2]
    /\ ReadZip(archive) = files_dict

PlainName(name) == name # <<>> /\ \A i \in 1..Len(name) : name[i] # "NUL"

-----------------------------------------------------------------------------
(* Properties of the catalog and get_pattern_code *)

\* C1: every pattern of the catalog is downloadable: the Download action
\* reaches the "ready for download" outcome with a non-empty mapping of file
\* names to templates, never an error outcome.
C1_EveryPatternDownloadable ==
    download.kind # "none" =>
        download.kind = "ready for download" /\ download.files # <<>>

\* C8: get_pattern_code is keyed on the pattern name only: two patterns with
\* the same name get the same outcome whatever their other fields are, and so
\* do repeated calls for the same pattern.
C8_KeyedOnNameOnly ==
    \A i, j \in 1..Len(lookup_codes) :
        lookup_patterns[i].name = lookup_patterns[j].name
            => lookup_codes[i] = lookup_codes[j]

\* two patterns of one name that differ in every other field were looked up
\* and got a file dictionary
C8_Witness ==
    /\ Len(lookup_codes) = 2
    /\ lookup_patterns[1].name = lookup_patterns[2].name
    /\ lookup_patterns[1].description # lookup_patterns[2].description
    /\ lookup_patterns[1].path # lookup_patterns[2].path
    /\ lookup_patterns[1].category # lookup_patterns[2].category
    /\ lookup_patterns[1].provider # lookup_patterns[2].provider
    /\ lookup_patterns[1].complexity # lookup_patterns[2].complexity
    /\ lookup_patterns[1].files # lookup_patterns[2].files
    /\ lookup_codes[1].error = "none" /\ lookup_codes[1].files # <<>>

\* C9: every catalog entry is a complete flat record: a non-empty name,
\* description, category, complexity and file list, provider "aws", and a
\* file list that contains main.tf, variables.tf and outputs.tf.
C9_CompleteRecords ==
    \A p \in Range(session_patterns.list) :
        /\ p.name # <<>>
        /\ p.description # ""
        /\ p.category # ""
        /\ p.complexity # ""
        /\ p.files # <<>>
        /\ p.provider = "aws"
        /\ {"main.tf", "variables.tf", "outputs.tf"} \subseteq Range(p.files)

\* Refresh with every filter at "All" stored the whole catalog
C9_Witness ==
    /\ session_patterns.set
    /\ session_patterns.list = FetchAwsPatterns
    /\ Len(session_patterns.list) = Len(predefined_patterns)

-----------------------------------------------------------------------------
(* Properties of the AI Code Generator page *)

Shows(message) == \E i \in 1..Len(gen.errors) : gen.errors[i] = message

\* C4: when the external API call fails, generate_terraform_code reports an
\* error and returns an empty result instead of propagating the failure; the
\* view shows the failure message and offers no file, ZIP or Jenkins download.
C4_ApiFailureHandled ==
    gen.api = "error" =>
        /\ gen.unhandled = "none"
        /\ Shows("Claude API error")
        /\ gen.files = <<>>
        /\ Shows("Failed to generate code. Please try again with different requirements.")
        /\ ~gen.success
        /\ gen.file_downloads = <<>>
        /\ ~gen.zip_download
        /\ ~gen.jenkins_section

\* a validated submission whose API request failed
C4_Witness ==
    /\ gen.submitted /\ gen.returned
    /\ gen.api = "error"
    /\ gen.requests = 1

\* C5: no retry around the external API call: each validated form submission
\* causes at most one request, and a failed request is never issued again.
C5_AtMostOneRequestPerSubmission ==
    /\ gen.requests <= 1
    /\ (gen.requests = 1 => gen.submitted /\ gen.returned)
    /\ api_requests <= validated_submissions

\* two validated submissions, the second failed: two requests in all
C5_Witness ==
    /\ validated_submissions = 2
    /\ api_requests = 2
    /\ gen.api = "error"

\* C6: every field of the requirements record produced by the form has its
\* value included in the prompt: the prompt changes with each field's value.
C6_EveryFieldForwarded ==
    prompt # <<>> =>
        \A f \in ReqFields :
            \A v \in FieldValues(f) \ {requirements[f]} :
                BuildGenerationPrompt([requirements EXCEPT ![f] = v]) # prompt

\* C10: for every provider choice in AWS, Azure, GCP, a submission with a
\* non-empty project name and description completes without an unhandled
\* error: it returns a requirements record for the chosen provider or reports
\* a validation error.
C10_MultiCloudForm ==
    (gen.submitted /\ gen.form.project_name # "" /\ gen.form.description # "") =>
        /\ gen.unhandled = "none"
        /\ \/ gen.returned /\ gen.requirements.provider = gen.form.provider
           \/ Shows("Project name is required!")
           \/ Shows("Please select at least one service!")
           \/ Shows("Project description is required!")

-----------------------------------------------------------------------------
(* Properties of main() and its navigation *)

\* C11: choosing "Pattern Browser" renders the pattern browser this file
\* defines, and every run of main() dispatches to a defined view without an
\* unhandled error
C11_NavigationDispatches ==
    /\ module = "Pattern Browser" => view.callee = "render_pattern_browser_updated"
    /\ view.unhandled = "none"

-----------------------------------------------------------------------------
(* Properties of the Jenkins section *)

\* C12: once "Generate Jenkins Pipeline" was clicked on a page showing a
\* successful generation, a run eventually displays the pipeline text and
\* its Jenkinsfile download
C12_JenkinsPipelineReachable ==
    gen.jenkins_clicked ~> (gen.pipeline /\ gen.jenkinsfile_download)

\* no run of the page displays the pipeline text
C12_PipelineNeverDisplayed == ~gen.pipeline /\ ~gen.jenkinsfile_download

-----------------------------------------------------------------------------
(* Properties of the gates in front of the API *)

\* C13: in every run of main(), a generator is constructed only when the
\* API key is configured, and a request is made only when the key is
\* configured and the form was submitted with a project name, at least one
\* service and a description
C13_ApiBehindBothGates ==
    /\ gen.constructed => anthropic_key
    /\ gen.requests > 0 =>
           /\ anthropic_key
           /\ gen.constructed
           /\ gen.submitted
           /\ gen.form.project_name # ""
           /\ gen.form.services # <<>>
           /\ gen.form.description # ""

\* a run that made a request
C13_Witness ==
    /\ module = "AI Code Generator"
    /\ anthropic_key
    /\ gen.submitted
    /\ gen.requests = 1
    /\ api_requests >= 1

-----------------------------------------------------------------------------
(* Properties of the form validation *)

ValidationErrors ==
    {"Project name is required!", "Please select at least one service!",
     "Project description is required!"}

IsValidationError(e) == e \in ValidationErrors

\* the validation errors a run showed, in the order shown
ValidationErrorsShown == SelectSeq(gen.errors, IsValidationError)

\* the error of the first failing check, in the order project name,
\* services, description
FirstFailingCheck(form) ==
    IF form.project_name = "" THEN <<"Project name is required!">>
    ELSE IF form.services = <<>> THEN <<"Please select at least one service!">>
    ELSE IF form.description = "" THEN <<"Project description is required!">>
    ELSE <<>>

\* C14: a submission with a missing field shows exactly the error of the
\* first failing check and returns no record; a run the form did not
\* trigger returns no record and shows no validation error
C14_FirstFailingCheckOnly ==
    anthropic_key =>
        /\ ~gen.submitted => ~gen.returned /\ ValidationErrorsShown = <<>>
        /\ gen.submitted /\ FirstFailingCheck(gen.form) # <<>> =>
               /\ gen.unhandled = "none"
               /\ ~gen.returned
               /\ ValidationErrorsShown = FirstFailingCheck(gen.form)

\* the same, for the submissions that choose provider AWS
C14_FirstFailingCheckOnlyAws ==
    anthropic_key /\ gen.form.provider = "AWS" =>
        /\ ~gen.submitted => ~gen.returned /\ ValidationErrorsShown = <<>>
        /\ gen.submitted /\ FirstFailingCheck(gen.form) # <<>> =>
               /\ gen.unhandled = "none"
               /\ ~gen.returned
               /\ ValidationErrorsShown = FirstFailingCheck(gen.form)

-----------------------------------------------------------------------------
(* Properties of the pattern browser's filters *)

\* pattern p passes each of the three selections
Matches(p, pf, cf, xf) ==
    /\ pf = "All" \/ Lower(p.provider) = Lower(pf)
    /\ cf = "All" \/ Lower(p.category) = Lower(cf)
    /\ xf = "All" \/ Lower(p.complexity) = Lower(xf)

\* list is exactly the matching patterns of the catalog, in catalog order
IsFiltered(list, catalog, pf, cf, xf) ==
    LET matching == {i \in 1..Len(catalog) : Matches(catalog[i], pf, cf, xf)}
        Rank(i) == Cardinality({j \in matching : j <= i})
    IN  /\ Len(list) = Cardinality(matching)
        /\ \A i \in matching : list[Rank(i)] = catalog[i]

\* C15: "Refresh Patterns" stores exactly the catalog patterns that pass the
\* provider, the category and the complexity selection, in catalog order;
\* with provider Azure or GCP it stores the empty list and the warning shows
C15_RefreshIsConjunction ==
    [][ClickRefresh =>
          /\ session_patterns'.set
          /\ IsFiltered(session_patterns'.list, FetchAwsPatterns, provider_filter,
                        category_filter, complexity_filter)
          /\ provider_filter \in {"Azure", "GCP"} =>
                 /\ session_patterns'.list = <<>>
                 /\ Display(session_patterns').warning]_vars

\* a Refresh with all three filters selected left a proper, non-empty part
\* of the catalog in the session
C15_Witness ==
    /\ session_patterns.set
    /\ provider_filter = "AWS"
    /\ category_filter = "compute"
    /\ complexity_filter = "intermediate"
    /\ session_patterns.list # <<>>
    /\ Len(session_patterns.list) < Len(FetchAwsPatterns)
    /\ IsFiltered(session_patterns.list, FetchAwsPatterns, provider_filter,
                  category_filter, complexity_filter)

\* C16: in every run of the browser, each displayed pattern passes the
\* provider, category and complexity selection of that run
C16_DisplayedMatchCurrentFilters ==
    \A i \in 1..Len(Display(session_patterns).patterns) :
        Matches(Display(session_patterns).patterns[i], provider_filter,
                category_filter, complexity_filter)

-----------------------------------------------------------------------------
(* Properties of the downloaded bundle *)

\* the file names of a bundle
FileNames(files) == {files[k][1] : k \in 1..Len(files)}

\* C17: the bundle a Download click delivers for a catalog pattern holds
\* exactly the files the catalog declares for that pattern
C17_BundleEqualsDeclaredFiles ==
    download # NoDownload =>
        \A i \in 1..Len(FetchAwsPatterns) :
            FetchAwsPatterns[i].name = download.pattern =>
                /\ download.kind = "ready for download"
                /\ FileNames(download.files) = Range(FetchAwsPatterns[i].files)

\* the same, for the bundles that were delivered and whose pattern declares
\* the three standard files only
C17_StandardBundles ==
    download.kind = "ready for download" =>
        \A i \in 1..Len(FetchAwsPatterns) :
            /\ FetchAwsPatterns[i].name = download.pattern
            /\ Len(FetchAwsPatterns[i].files) = 3
            => FileNames(download.files) = Range(FetchAwsPatterns[i].files)

-----------------------------------------------------------------------------
(* Properties of the download controls of the AI Code Generator page *)

\* the per-file downloads of every generated file, the ZIP download and the
\* Jenkins section are all on the page
DownloadControlsShown ==
    /\ gen.file_downloads = [i \in 1..Len(gen.files) |-> gen.files[i].name]
    /\ gen.file_downloads # <<>>
    /\ gen.zip_download
    /\ gen.jenkins_section

\* none of them is
NoDownloadControlShown ==
    /\ gen.file_downloads = <<>>
    /\ ~gen.zip_download
    /\ ~gen.jenkins_section

\* C18: in a run that calls generate_terraform_code, the download controls
\* are shown if and only if it returned a non-empty mapping; an empty
\* mapping (such as the empty JSON object) is reported as a failure
C18_DownloadsIffFiles ==
    gen.returned =>
        /\ gen.files # <<>> <=> DownloadControlsShown
        /\ gen.files = <<>> =>
               /\ NoDownloadControlShown
               /\ Shows("Failed to generate code. Please try again with different requirements.")

\* the same, for the mappings whose values are all strings
C18_DownloadsIffStringFiles ==
    gen.returned /\ (\A i \in 1..Len(gen.files) : gen.files[i].content.type = "str") =>
        /\ gen.files # <<>> <=> DownloadControlsShown
        /\ gen.files = <<>> =>
               /\ NoDownloadControlShown
               /\ Shows("Failed to generate code. Please try again with different requirements.")

-----------------------------------------------------------------------------
(* Properties of the prompt's defaults *)

\* the default of each field the prompt names
DefaultOf(f) ==
    CASE f = "provider" -> "AWS"
      [] f = "project_name" -> "infrastructure"
      [] f = "environment" -> "development"
      [] f = "region" -> "us-west-2"
      [] f = "description" -> "Infrastructure deployment"
      [] f = "compliance" -> "Standard"
      [] f = "vpc_config" -> "Default"
      [] f = "services" -> <<>>
      [] f = "security_hardening" -> TRUE
      [] OTHER -> FALSE     \* the four feature flags

\* the value of the field when present, else its default
ValueOrDefault(reqs, f) == IF f \in DOMAIN reqs THEN reqs[f] ELSE DefaultOf(f)

FlagFields ==
    {"ha_required", "backup_required", "monitoring", "auto_scaling",
     "security_hardening"}

\* the text the field's value (or default) is interpolated as
Interpolated(reqs, f) ==
    IF f \in FlagFields THEN StrBool(ValueOrDefault(reqs, f)) ELSE ValueOrDefault(reqs, f)

\* the piece of the prompt that follows the label
After(text, label) ==
    text[(CHOOSE i \in 1..Len(text) : text[i] = label) + 1]

\* the pieces of the prompt between two labels
Between(text, first, last) ==
    SubSeq(text, (CHOOSE i \in 1..Len(text) : text[i] = first) + 1,
                 (CHOOSE i \in 1..Len(text) : text[i] = last) - 1)

\* the lines of the "Requirements", "Details" and "Security" sections
LabelledLines ==
    {<<"- Cloud Provider: ", "provider">>, <<"- Project Name: ", "project_name">>,
     <<"- Environment: ", "environment">>, <<"- Region: ", "region">>,
     <<"- Description: ", "description">>, <<"- High Availability: ", "ha_required">>,
     <<"- Backup Required: ", "backup_required">>, <<"- Monitoring: ", "monitoring">>,
     <<"- Auto Scaling: ", "auto_scaling">>, <<"- Compliance: ", "compliance">>,
     <<"- Security Hardening: ", "security_hardening">>,
     <<"- VPC Configuration: ", "vpc_config">>}

\* every place where the prompt interpolates a field
Interpolations ==
    LabelledLines \cup {<<"- Use consistent naming with ", "environment">>}

ServicesInPrompt(text) == Between(text, "- Services Needed: ", "- Environment: ")

\* C19: for any record, the empty one included, the builder returns a prompt
\* in which every field it names appears with the record's value when the
\* record has the field and with the field's default when it has not
C19_DefaultsFillMissingFields ==
    prompt # <<>> =>
        /\ \A line \in Interpolations :
               After(prompt, line[1]) = Interpolated(requirements, line[2])
        /\ ServicesInPrompt(prompt) = JoinComma(ValueOrDefault(requirements, "services"))

\* the same, for the labelled lines of the three sections only
C19_DefaultsAtLabelledLines ==
    prompt # <<>> =>
        /\ \A line \in LabelledLines :
               After(prompt, line[1]) = Interpolated(requirements, line[2])
        /\ ServicesInPrompt(prompt) = JoinComma(ValueOrDefault(requirements, "services"))
====
